---- MODULE Spec2Model ----
(***************************************************************************)
(* A model of rlm_totp_code.c (FreeRADIUS TOTP code module): the Base32    *)
(* validator and decoder, the TOTP parameter resolution and calculator,    *)
(* and the anti-replay cache (rbtree + expiry list) guarded by the module  *)
(* mutex.                                                                  *)
(*                                                                         *)
(* The state machines share the variables below; each specification moves  *)
(* the variables of its own component (SpecCalc also creates the empty     *)
(* cache, as mod_instantiate does):                                        *)
(*    SpecBase32    totp_base32_verify, totp_base32_decode, and the decode *)
(*                  call of totp_xlat_code                                 *)
(*    SpecCalc      mod_instantiate, totp_set_params, totp_calculate       *)
(*    Spec          worker threads calling totp_cache_update               *)
(*    FairSpec      Spec with fairness of every thread's steps             *)
(*    SpecOverride  one thread calling totp_cache_update with params that  *)
(*                  carry per-request overrides                            *)
(*                                                                         *)
(* The 64-bit words of the C code are modelled by words of WordBits bits   *)
(* (arithmetic modulo 2^WordBits, two's complement for the signed ones).   *)
(***************************************************************************)
EXTENDS Integers, Sequences, FiniteSets, TLC

VARIABLES
    \* ---- Base32 codec ----
    b32pc,      \* "start" | "verified" | "decoded"
    src,        \* the input text, a sequence of bytes 0..255
    oob,        \* the int8 the build holds at base32_map[i] for i < 0
    vrc,        \* the value returned by totp_base32_verify
    dstlen,     \* the capacity of the destination buffer
    dst,        \* the bytes written to the destination: index -> byte
    drc,        \* the value returned by totp_base32_decode
    \* ---- configuration, parameter resolution, calculator ----
    calcpc,     \* "config" | "ready" | "params" | "done"
    build,      \* [openssl: BOOLEAN]: whether HAVE_OPENSSL_EVP_H is defined
    inst,       \* the rlm_totp_code_t fields the calculator path reads
    req,        \* the request: [attrs: the control attributes read]
    params,     \* totp_params_t
    setrc,      \* what totp_set_params returned
    calcrc,     \* what totp_calculate returned
    fault,      \* "none" | "SIGFPE": the trap of an integer division by zero
    \* ---- anti-replay cache ----
    clock,      \* the Unix time, as last read for a request
    mutex,      \* inst->mutex: the thread that holds it, or NULL
    heap,       \* the totp_cache_entry_t objects: address -> fields
    cache_tree, \* inst->cache_tree: the addresses held as rbtree data
    pc,         \* per thread: its position in totp_cache_update
    frame,      \* per thread: the arguments and locals of its call
    ncalls,     \* the calls of totp_cache_update started so far
    recorded,   \* history: <<key, time step>> of the calls that returned 0
    nominal,    \* history: no insertion failed and every lookup so far
                \* returned what a byte-wise comparison of the keys returns
    cfault      \* "none" | "SIGSEGV": the process died in a tree comparison

b32vars == <<b32pc, src, oob, vrc, dstlen, dst, drc>>

calcvars == <<calcpc, build, inst, req, params, setrc, calcrc, fault>>

cachevars == <<clock, mutex, heap, cache_tree, pc, frame, ncalls, recorded,
               nominal, cfault>>

vars == <<b32pc, src, oob, vrc, dstlen, dst, drc,
          calcpc, build, inst, req, params, setrc, calcrc, fault,
          clock, mutex, heap, cache_tree, pc, frame, ncalls, recorded,
          nominal, cfault>>

\* NULL: an absent attribute, an unset pointer
NULL == 0

\* the components at rest (the state of a component its specification
\* does not run)
Base32Idle ==
    /\ b32pc = "idle"
    /\ src = << >>
    /\ oob = -1
    /\ vrc = 0
    /\ dstlen = 0
    /\ dst = << >>
    /\ drc = 0

CalcIdle ==
    /\ calcpc = "idle"
    /\ build = [openssl |-> TRUE]
    /\ inst = NULL
    /\ req = NULL
    /\ params = NULL
    /\ setrc = 0
    /\ calcrc = 0
    /\ fault = "none"

CacheIdle ==
    /\ clock = 0
    /\ mutex = NULL
    /\ heap = << >>
    /\ cache_tree = {}
    /\ pc = << >>
    /\ frame = << >>
    /\ ncalls = 0
    /\ recorded = {}
    /\ nominal = TRUE
    /\ cfault = "none"

-----------------------------------------------------------------------------
(* Base32 codec                                                            *)

RLM_TOTP_CODE_EBASE32 == -1

\* '=' (0x3D), the pad character tested at lines 763 and 771
PadChar == 61

\* longest input text of the padding cases
MaxSrcLen == 16

\* longest input text of the single-odd-byte cases
MaxByteLen == 8

base32_map ==
   << -1, -1, -1, -1, -1, -1, -1, -1, -1, -1, -1, -1, -1, -1, -1, -1,
      -1, -1, -1, -1, -1, -1, -1, -1, -1, -1, -1, -1, -1, -1, -1, -1,
      -1, -1, -1, -1, -1, -1, -1, -1, -1, -1, -1, -1, -1, -1, -1, -1,
      14, 11, 26, 27, 28, 29, 30, 31,  1, -1, -1, -1, -1,  0, -1, -1,
      -1,  0,  1,  2,  3,  4,  5,  6,  7,  8,  9, 10, 11, 12, 13, 14,
      15, 16, 17, 18, 19, 20, 21, 22, 23, 24, 25, -1, -1, -1, -1, -1,
      -1,  0,  1,  2,  3,  4,  5,  6,  7,  8,  9, 10, 11, 12, 13, 14,
      15, 16, 17, 18, 19, 20, 21, 22, 23, 24, 25, 26, -1, -1, -1, -1,
      -1, -1, -1, -1, -1, -1, -1, -1, -1, -1, -1, -1, -1, -1, -1, -1,
      -1, -1, -1, -1, -1, -1, -1, -1, -1, -1, -1, -1, -1, -1, -1, -1,
      -1, -1, -1, -1, -1, -1, -1, -1, -1, -1, -1, -1, -1, -1, -1, -1,
      -1, -1, -1, -1, -1, -1, -1, -1, -1, -1, -1, -1, -1, -1, -1, -1,
      -1, -1, -1, -1, -1, -1, -1, -1, -1, -1, -1, -1, -1, -1, -1, -1,
      -1, -1, -1, -1, -1, -1, -1, -1, -1, -1, -1, -1, -1, -1, -1, -1,
      -1, -1, -1, -1, -1, -1, -1, -1, -1, -1, -1, -1, -1, -1, -1, -1,
      -1, -1, -1, -1, -1, -1, -1, -1, -1, -1, -1, -1, -1, -1, -1, -1 >>

\* (int8_t)src[pos]: the subscript totp_base32_verify computes at line 759
VerifyIndex(byte) == IF byte >= 128 THEN byte - 256 ELSE byte

\* base32_map[i] as the build reads it: the table for 0..255; a negative
\* subscript reads the bytes stored in front of the table, which the source
\* does not determine (oob stands for them)
MapRead(i) == IF i >= 0 /\ i <= 255 THEN base32_map[i + 1] ELSE oob

\* lines 770-772: every remaining byte from pos on is '='
RECURSIVE VerifyPadRun(_, _)
VerifyPadRun(s, pos) ==
    IF pos >= Len(s) THEN TRUE
    ELSE IF s[pos + 1] # PadChar THEN FALSE
    ELSE VerifyPadRun(s, pos + 1)

\* lines 757-775: the scan; the length of the data in front of the padding,
\* or RLM_TOTP_CODE_EBASE32
RECURSIVE VerifyScan(_, _)
VerifyScan(s, pos) ==
    IF pos >= Len(s) THEN pos                       \* no pad seen: datlen = pos
    ELSE IF MapRead(VerifyIndex(s[pos + 1])) = -1 THEN RLM_TOTP_CODE_EBASE32
    ELSE IF s[pos + 1] # PadChar THEN VerifyScan(s, pos + 1)
    ELSE IF (pos % 8) < 2 THEN RLM_TOTP_CODE_EBASE32
    ELSE IF (pos + (8 - (pos % 8))) # Len(s) THEN RLM_TOTP_CODE_EBASE32
    ELSE IF ~VerifyPadRun(s, pos) THEN RLM_TOTP_CODE_EBASE32
    ELSE pos                                        \* datlen = pos, loop ends

\* a switch that takes the remainder 6 for a valid length
VerifyDatlenOk_Takes6(datlen) == (datlen % 8) \in {0, 2, 4, 5, 6, 7}

\* lines 778-791: the switch on datlen % 8
VerifyDatlenOk(datlen) == (datlen % 8) \in {0, 2, 4, 5, 7}

totp_base32_verify(s) ==
    LET datlen == VerifyScan(s, 0)
    IN  IF datlen = RLM_TOTP_CODE_EBASE32 THEN RLM_TOTP_CODE_EBASE32
        ELSE IF ~VerifyDatlenOk(datlen) THEN RLM_TOTP_CODE_EBASE32
        ELSE (datlen * 5) \div 8


RLM_TOTP_CODE_EBUFSIZ == -2

\* the operand's low eight bits (the masks of lines 682-729 keep no others)
Low8(v) == v % 256

\* a & b, a | b on eight bits
RECURSIVE And8(_, _, _)
And8(a, b, i) ==
    IF i = 8 THEN 0
    ELSE (a % 2) * (b % 2) + 2 * And8(a \div 2, b \div 2, i + 1)

RECURSIVE Or8(_, _, _)
Or8(a, b, i) ==
    IF i = 8 THEN 0
    ELSE (IF a % 2 = 1 \/ b % 2 = 1 THEN 1 ELSE 0)
         + 2 * Or8(a \div 2, b \div 2, i + 1)

\* what a build makes of v << n for a negative v (undefined in C)
NegShiftOutcomes == {"wrap", "zero"}

\* (v << n) & mask and (v >> n) & mask for an int8_t v promoted to int
ShlMask(v, n, mask, ns) ==
    IF v < 0 /\ ns = "zero" THEN 0
    ELSE And8(Low8(v * (2 ^ n)), mask, 0)

ShrMask(v, n, mask) == And8(Low8(v \div (2 ^ n)), mask, 0)

\* base32_map[(uint8_t)src[pos-k]] of lines 682-729, pos counted from 0
DecodeRead(s, pos) == base32_map[s[pos + 1] + 1]

\* the byte stored at dst[datlen] for pos % 8 = 1, 3, 4, 6, 7
DecodeByte(s, pos, ns) ==
    LET c == pos % 8
        m0 == DecodeRead(s, pos)
        m1 == DecodeRead(s, pos - 1)
        m2 == IF pos >= 2 THEN DecodeRead(s, pos - 2) ELSE 0
    IN  IF c = 1 THEN Or8(ShlMask(m1, 3, 248, ns), ShrMask(m0, 2, 7), 0)
        ELSE IF c = 3
        THEN Or8(Or8(ShlMask(m2, 6, 192, ns), ShlMask(m1, 1, 62, ns), 0),
                 ShrMask(m0, 4, 1), 0)
        ELSE IF c = 4 THEN Or8(ShlMask(m1, 4, 240, ns), ShrMask(m0, 1, 15), 0)
        ELSE IF c = 6
        THEN Or8(Or8(ShlMask(m2, 7, 128, ns), ShlMask(m1, 2, 124, ns), 0),
                 ShrMask(m0, 3, 3), 0)
        ELSE Or8(ShlMask(m1, 5, 224, ns), ShrMask(m0, 0, 31), 0)

\* a loop that misses the pad test of case 4
DecodeStops_NotAt4(c, pad) == pad /\ c \in {0, 2, 5, 7}

\* lines 689, 703, 712, 726, 734: the positions where a '=' ends the loop
DecodeStops(c, pad) == pad /\ c \in {0, 2, 4, 5, 7}

\* the positions where a byte is stored (cases 1, 3, 4, 6, 7)
DecodeWrites(c) == c \in {1, 3, 4, 6, 7}

\* lines 675-740: the loop; d is the destination, index -> byte written
RECURSIVE DecodeScan(_, _, _, _, _)
DecodeScan(s, pos, d, datlen, ns) ==
    IF pos >= Len(s) THEN [rc |-> datlen, dst |-> d]
    ELSE IF DecodeStops(pos % 8, s[pos + 1] = PadChar)
    THEN [rc |-> datlen, dst |-> d]
    ELSE IF DecodeWrites(pos % 8)
    THEN DecodeScan(s, pos + 1, (datlen :> DecodeByte(s, pos, ns)) @@ d,
                    datlen + 1, ns)
    ELSE DecodeScan(s, pos + 1, d, datlen, ns)

\* lines 665-740
totp_base32_decode(cap, s, ns) ==
    LET rc == totp_base32_verify(s)
    IN  IF rc < 0 THEN [rc |-> rc, dst |-> << >>]
        ELSE IF rc > cap THEN [rc |-> RLM_TOTP_CODE_EBUFSIZ, dst |-> << >>]
        ELSE DecodeScan(s, 0, << >>, 0, ns)

\* some map value read by the decoder is negative
RECURSIVE ReadsNegative(_, _)
ReadsNegative(s, pos) ==
    IF pos >= Len(s) THEN FALSE
    ELSE DecodeRead(s, pos) < 0 \/ ReadsNegative(s, pos + 1)

-----------------------------------------------------------------------------
(* Words                                                                   *)

\* width of the model's machine word (uint64_t / int64_t in the source)
WordBits == 12

WordMod == 2 ^ WordBits

\* a value stored in a uint64_t
U64(v) == v % WordMod

\* a word read as an int64_t (also the (int) cast of line 861)
I64(v) == IF U64(v) >= WordMod \div 2 THEN U64(v) - WordMod ELSE U64(v)

\* v >> n for a word v
Shr(v, n) == IF n >= WordBits THEN 0 ELSE v \div (2 ^ n)

-----------------------------------------------------------------------------
(* Configuration and parameter resolution                                  *)

RLM_TOTP_HMAC_SHA1 == 1
RLM_TOTP_HMAC_SHA224 == 224
RLM_TOTP_HMAC_SHA256 == 256
RLM_TOTP_HMAC_SHA384 == 384
RLM_TOTP_HMAC_SHA512 == 512

\* names are texts: sequences of character codes
T_sha1   == <<115, 104, 97, 49>>
T_sha224 == <<115, 104, 97, 50, 50, 52>>
T_sha256 == <<115, 104, 97, 50, 53, 54>>
T_sha384 == <<115, 104, 97, 51, 56, 52>>
T_sha512 == <<115, 104, 97, 53, 49, 50>>
T_HMAC   == <<72, 77, 65, 67>>
T_md5    == <<109, 100, 53>>

\* tolower() of one character
ToLower(c) == IF c >= 65 /\ c <= 90 THEN c + 32 ELSE c

\* strcasecmp(a, b) == 0
StrCaseEq(a, b) ==
    /\ Len(a) = Len(b)
    /\ \A i \in 1..Len(a) : ToLower(a[i]) = ToLower(b[i])

\* strncasecmp(a, b, n) == 0, for a text b of at least n characters
StrNCaseEq(a, b, n) ==
    /\ Len(a) >= n
    /\ \A i \in 1..n : ToLower(a[i]) = ToLower(b[i])

\* totp_algorithm_map: the entries in front of the { NULL, 0 } terminator
totp_algorithm_map ==
    IF build.openssl
    THEN << [name |-> T_sha1,   id |-> RLM_TOTP_HMAC_SHA1],
            [name |-> T_sha224, id |-> RLM_TOTP_HMAC_SHA224],
            [name |-> T_sha256, id |-> RLM_TOTP_HMAC_SHA256],
            [name |-> T_sha384, id |-> RLM_TOTP_HMAC_SHA384],
            [name |-> T_sha512, id |-> RLM_TOTP_HMAC_SHA512] >>
    ELSE << [name |-> T_sha1,   id |-> RLM_TOTP_HMAC_SHA1] >>

RECURSIVE AlgorithmScan(_, _)
AlgorithmScan(name, idx) ==
    IF idx > Len(totp_algorithm_map) THEN -1
    ELSE IF StrCaseEq(name, totp_algorithm_map[idx].name)
         THEN totp_algorithm_map[idx].id
         ELSE AlgorithmScan(name, idx + 1)

totp_algorithm_id(algo_name) ==
    IF StrNCaseEq(algo_name, T_HMAC, 4)
    THEN AlgorithmScan(SubSeq(algo_name, 5, Len(algo_name)), 1)
    ELSE AlgorithmScan(algo_name, 1)

\* FR_INTEGER_BOUND_CHECK(name, var, >=, bound): a smaller value is raised
BoundCheckGe(v, bound) == IF v >= bound THEN v ELSE bound

\* FR_INTEGER_BOUND_CHECK(name, var, <=, bound): a larger value is lowered
BoundCheckLe(v, bound) == IF v <= bound THEN v ELSE bound

\* lines 520-523: an unknown algorithm name is replaced by SHA1
InstantiateAlgo(algo_str) ==
    IF totp_algorithm_id(algo_str) = -1
    THEN RLM_TOTP_HMAC_SHA1
    ELSE totp_algorithm_id(algo_str)

\* a VALUE_PAIR: its dictionary type, its number or its text
Attr(type, val, text) == [type |-> type, val |-> val, text |-> text]

\* the NULL VALUE_PAIR pointer: the request holds no such attribute
NoVp == Attr("none", 0, << >>)

\* the override attributes (the vsa_* members of rlm_totp_code_t)
VsaNames == {"time_offset", "unix_time", "time_step", "otp_length", "algorithm"}

\* strtoull / strtoll of a text: [ok, val]; ok is FALSE when no digit was
\* converted or a character follows the number (lines 1099-1101)
IsDigit(c) == c >= 48 /\ c <= 57

RECURSIVE DigitsValue(_, _, _)
DigitsValue(t, i, acc) ==
    IF i > Len(t) \/ ~IsDigit(t[i]) THEN [val |-> acc, end |-> i]
    ELSE DigitsValue(t, i + 1, U64(acc * 10 + (t[i] - 48)))

RECURSIVE SkipSpace(_, _)
SkipSpace(t, i) == IF i <= Len(t) /\ t[i] = 32 THEN SkipSpace(t, i + 1) ELSE i

StrToWord(t) ==
    LET b == SkipSpace(t, 1)
        neg == b <= Len(t) /\ t[b] = 45
        d == IF b <= Len(t) /\ t[b] \in {43, 45} THEN b + 1 ELSE b
        r == DigitsValue(t, d, 0)
    IN  [ok |-> r.end > d /\ r.end > Len(t),
         val |-> IF neg THEN U64(0 - r.val) ELSE r.val]

\* totp_set_params_integer: [rc, val], val the word left in *uintp
totp_set_params_integer(vp, old) ==
    IF vp = NoVp THEN [rc |-> 0, val |-> old]
    ELSE CASE vp.type = "integer"   -> [rc |-> 0, val |-> U64(vp.val)]
           [] vp.type = "integer64" -> [rc |-> 0, val |-> U64(vp.val)]
           [] vp.type = "short"     -> [rc |-> 0, val |-> U64(vp.val)]
           [] vp.type = "signed"    -> [rc |-> 0, val |-> U64(vp.val)]
           [] vp.type = "string"    ->
                IF StrToWord(vp.text).ok
                THEN [rc |-> 0, val |-> StrToWord(vp.text).val]
                ELSE [rc |-> -1, val |-> old]
           [] OTHER -> [rc |-> -1, val |-> old]

\* totp_set_params_signed: the same conversions into an int64_t
totp_set_params_signed(vp, old) ==
    [rc |-> totp_set_params_integer(vp, U64(old)).rc,
     val |-> I64(totp_set_params_integer(vp, U64(old)).val)]

\* an override that keeps the configured algorithm when the name is unknown
SetParamsAlgo_KeepsOnUnknown(vp, old) ==
    IF vp # NoVp /\ vp.type = "string"
    THEN IF totp_algorithm_id(vp.text) > 0
         THEN U64(totp_algorithm_id(vp.text))
         ELSE old
    ELSE old

\* lines 1046-1053: the algorithm override
SetParamsAlgo(vp, old) ==
    IF vp # NoVp /\ vp.type = "string"
    THEN IF U64(totp_algorithm_id(vp.text)) # 0
         THEN U64(totp_algorithm_id(vp.text))
         ELSE old
    ELSE old

\* the attribute the request holds for a configured vsa_* entry (NULL when
\* the entry is not configured or the request has no such attribute)
RequestVp(attrs, name) == IF name \in inst.vsa THEN attrs[name] ELSE NoVp

\* lines 1030-1036: the values of the module instance
ParamsFromInstance(now) ==
    [totp_t0          |-> inst.totp_t0,
     totp_x           |-> inst.totp_x,
     totp_cur_unix    |-> now,
     totp_t           |-> 0,
     totp_time_offset |-> inst.totp_time_offset,
     totp_algo        |-> inst.totp_algo,
     otp_length       |-> inst.otp_length,
     key              |-> << >>,
     otp              |-> << >>]

\* lines 1038-1055
ParamsResolved(now, attrs) ==
    IF inst.allow_override = FALSE THEN ParamsFromInstance(now)
    ELSE LET p == ParamsFromInstance(now)
         IN [p EXCEPT
              !.totp_time_offset =
                  totp_set_params_signed(RequestVp(attrs, "time_offset"), @).val,
              !.totp_t0 =
                  totp_set_params_integer(RequestVp(attrs, "unix_time"), @).val,
              !.totp_x =
                  totp_set_params_integer(RequestVp(attrs, "time_step"), @).val,
              !.otp_length =
                  totp_set_params_integer(RequestVp(attrs, "otp_length"), @).val,
              !.totp_algo = SetParamsAlgo(RequestVp(attrs, "algorithm"), @)]

-----------------------------------------------------------------------------
(* Calculator                                                              *)

\* lines 851-858: data[0..7], the interval count big-endian
CounterBytes(t) == [i \in 1..8 |-> Shr(t, 8 * (8 - i)) % 256]

\* digest length of each HMAC (SHA1_DIGEST_LENGTH, EVP_MD_size)
DigestLen(algo) ==
    CASE algo = RLM_TOTP_HMAC_SHA1   -> 20
      [] algo = RLM_TOTP_HMAC_SHA224 -> 28
      [] algo = RLM_TOTP_HMAC_SHA256 -> 32
      [] algo = RLM_TOTP_HMAC_SHA384 -> 48
      [] algo = RLM_TOTP_HMAC_SHA512 -> 64
      [] OTHER -> 0

RECURSIVE SumSeq(_, _)
SumSeq(q, i) == IF i > Len(q) THEN 0 ELSE (q[i] * (i + 2) + SumSeq(q, i + 1)) % 251

\* The HMAC of the crypto library (fr_hmac_sha1, OpenSSL HMAC) is outside
\* the module. It is a fixed function of (algorithm, key, data); the model
\* keeps that and its digest lengths, with a stand-in mixing function for
\* the digest bytes.
HmacBytes(algo, key, data) ==
    LET seed == SumSeq(data, 1) * 37 + SumSeq(key, 1) * 11 + algo * 3
    IN  [i \in 1..DigestLen(algo) |-> (seed + i * i * 7 + i * 29) % 256]

\* totp_hmac: the digest and *digest_lenp (0 when no HMAC ran)
totp_hmac(totp_algo, data, key) ==
    IF build.openssl
    THEN IF totp_algo \in {RLM_TOTP_HMAC_SHA1, RLM_TOTP_HMAC_SHA224,
                           RLM_TOTP_HMAC_SHA256, RLM_TOTP_HMAC_SHA384,
                           RLM_TOTP_HMAC_SHA512}
         THEN [digest |-> HmacBytes(totp_algo, key, data),
               digest_len |-> DigestLen(totp_algo)]
         ELSE [digest |-> << >>, digest_len |-> 0]
    ELSE IF totp_algo = RLM_TOTP_HMAC_SHA1
         THEN [digest |-> HmacBytes(totp_algo, key, data),
               digest_len |-> DigestLen(totp_algo)]
         ELSE [digest |-> << >>, digest_len |-> 0]

\* a truncation that takes the offset from the low 3 bits only
BinCode_Offset3Bits(digest, digest_len) ==
    LET offset == digest[digest_len] % 8
    IN  (digest[offset + 1] % 128) * 16777216
        + digest[offset + 2] * 65536
        + digest[offset + 3] * 256
        + digest[offset + 4]

\* lines 866-870: dynamic truncation of a digest of digest_len bytes
BinCode(digest, digest_len) ==
    LET offset == digest[digest_len] % 16
    IN  (digest[offset + 1] % 128) * 16777216
        + digest[offset + 2] * 65536
        + digest[offset + 3] * 256
        + digest[offset + 4]

\* lines 873-874: denominator *= 10, digits times, in a 32-bit unsigned;
\* the value as <<high 16 bits, low 16 bits>>.  10^32 is a multiple of
\* 2^32, so from 32 digits on the product is 0.
RECURSIVE Denominator(_)
Denominator(digits) ==
    IF digits = 0 THEN <<0, 1>>
    ELSE IF digits >= 32 THEN <<0, 0>>
    ELSE LET d == Denominator(digits - 1)
             lo == d[2] * 10
         IN  <<(d[1] * 10 + lo \div 65536) % 65536, lo % 65536>>

\* line 876: bin_code % denominator for bin_code < 2^31 and a nonzero
\* denominator
OtpValue(bin_code, den) ==
    IF den[1] >= 32768 THEN bin_code
    ELSE bin_code % (den[1] * 65536 + den[2])

RECURSIVE DecimalText(_)
DecimalText(n) ==
    IF n < 10 THEN <<48 + n>>
    ELSE Append(DecimalText(n \div 10), 48 + (n % 10))

Repeat(c, n) == [i \in 1..n |-> c]

\* line 878: snprintf(otp, 16, "%0*u", width, value): zero-filled to width,
\* a negative width left-justifies in -width columns; at most 15 characters
OtpText(width, value) ==
    LET d == DecimalText(value)
        full == IF width >= 0
                THEN IF Len(d) >= width THEN d ELSE Repeat(48, width - Len(d)) \o d
                ELSE IF Len(d) >= 0 - width THEN d
                     ELSE d \o Repeat(32, (0 - width) - Len(d))
    IN  IF Len(full) > 15 THEN SubSeq(full, 1, 15) ELSE full

\* An integer division by zero is undefined in C.  What builds do: the
\* instruction traps (x86: SIGFPE), or it yields quotient 0 (AArch64) or
\* all ones (RISC-V), the remainder being the dividend in both.
DivZeroOutcomes == {"trap", "zero", "ones"}

DivZeroQuotient(d) == IF d = "zero" THEN 0 ELSE WordMod - 1

\* the outcomes to follow for the parameters p: no choice when p divides
\* by nothing that is zero
DivOutcomesFor(p) ==
    IF p.totp_x = 0 \/ Denominator(p.otp_length) = <<0, 0>>
    THEN DivZeroOutcomes
    ELSE {"trap"}

\* lines 846-848: the interval count; d decides a division by zero
\* an interval count rounded up instead of down
IntervalCount_RoundsUp(p, d) ==
    IF p.totp_x = 0 THEN DivZeroQuotient(d)
    ELSE U64(U64(U64(p.totp_cur_unix - p.totp_t0) + p.totp_time_offset)
             + p.totp_x - 1) \div p.totp_x

\* lines 845-848: the interval count
IntervalCount(p, d) ==
    IF p.totp_x = 0 THEN DivZeroQuotient(d)
    ELSE U64(U64(p.totp_cur_unix - p.totp_t0) + p.totp_time_offset) \div p.totp_x

\* line 842: the guard of the calculation
CalcGuardFails(p) == p.totp_t0 > U64(p.totp_cur_unix + p.totp_time_offset)

\* lines 850-880, from the interval count t on: [rc, totp_t, otp, fault]
CalcFrom(p, t, d) ==
    LET h == totp_hmac(I64(p.totp_algo), CounterBytes(t), p.key)
        den == Denominator(p.otp_length)
    IN  IF h.digest_len = 0
        THEN [rc |-> -1, totp_t |-> t, otp |-> << >>, fault |-> "none"]
        ELSE IF den = <<0, 0>> /\ d = "trap"
        THEN [rc |-> 0, totp_t |-> t, otp |-> << >>, fault |-> "SIGFPE"]
        ELSE LET bin_code == BinCode(h.digest, h.digest_len)
                 otp == IF den = <<0, 0>> THEN bin_code ELSE OtpValue(bin_code, den)
             IN  [rc |-> otp, totp_t |-> t,
                  otp |-> OtpText(I64(p.otp_length), otp), fault |-> "none"]

\* totp_calculate(params): [rc, totp_t, otp, fault]
CalcResult(p, d) ==
    IF CalcGuardFails(p)
    THEN [rc |-> -1, totp_t |-> p.totp_t, otp |-> p.otp, fault |-> "none"]
    ELSE IF p.totp_x = 0 /\ d = "trap"
    THEN [rc |-> 0, totp_t |-> p.totp_t, otp |-> p.otp, fault |-> "SIGFPE"]
    ELSE CalcFrom(p, IntervalCount(p, d), d)

\* inst->cache_list: the address of the list sentinel (lines 603-608);
\* the entries are allocated at the addresses above it
cache_list == 1

\* the sentinel after the memset of line 608
ZeroEntry ==
    [key |-> << >>, keylen |-> 0, entry_expires |-> 0,
     prev |-> NULL, next |-> NULL]

-----------------------------------------------------------------------------
(* Inputs and state machines                                               *)

\* ---- configuration and requests of the calculator ----

\* latest clock reading of a request
MaxNow == 24

Times == 0..MaxNow

T_SHA256 == <<83, 72, 65, 50, 53, 54>>
T_HmacSha512 == T_HMAC \o T_sha512

\* module configuration as written in the configuration file
CfgT0 == {0, 10}
CfgX == {3}
CfgOffset == {0, -15}
CfgLen == {6, 12}
CfgAlgoNames == {T_sha1, T_SHA256, T_HmacSha512, T_md5}
CfgVsa == {{"time_offset"}, VsaNames}

CalcKeys == { <<49, 50>> }

\* values of a numeric override attribute: "9", "x", "4x" are the texts;
\* octets is a type totp_set_params_integer has no case for
NumberAttrs ==
    { Attr("integer", 0, << >>), Attr("integer64", 7, << >>),
      Attr("signed", -15, << >>),
      Attr("string", 0, <<57>>), Attr("string", 0, <<120>>),
      Attr("string", 0, <<52, 120>>), Attr("octets", 0, <<52>>) }

AlgoAttrs ==
    { Attr("string", 0, T_SHA256), Attr("string", 0, T_md5),
      Attr("integer", 1, << >>) }

AttrValues(name) == IF name = "algorithm" THEN AlgoAttrs ELSE NumberAttrs

NoAttrs == [n \in VsaNames |-> NoVp]

\* the control attributes of a request: none, or one override attribute
RequestAttrs ==
    {NoAttrs} \cup
    { [NoAttrs EXCEPT ![n] = v] : <<n, v>> \in
        UNION { {<<m, w>> : w \in AttrValues(m)} : m \in VsaNames } }

InitCalc ==
    /\ calcpc = "config"
    /\ build \in [openssl : BOOLEAN]
    /\ \E t0 \in CfgT0, x \in CfgX, off \in CfgOffset, len \in CfgLen,
          name \in CfgAlgoNames, ovr \in BOOLEAN, vsa \in CfgVsa,
          reuse \in BOOLEAN :
          /\ ovr = FALSE => vsa = {"time_offset"}
          /\ reuse = TRUE => (ovr = FALSE /\ name = T_sha1)
          /\ inst = [totp_t0 |-> t0, totp_x |-> x, totp_time_offset |-> off,
                     otp_length |-> len, allow_reuse |-> reuse,
                     allow_override |-> ovr,
                     totp_algo_str |-> name, totp_algo |-> 0, vsa |-> vsa]
    /\ req = NULL
    /\ params = NULL
    /\ setrc = 0
    /\ calcrc = 0
    /\ fault = "none"
    /\ Base32Idle
    /\ CacheIdle

\* mod_instantiate: the bound checks, the algorithm of the configuration
\* and, unless allow_reuse is set, the empty cache (lines 599-609)
mod_instantiate ==
    /\ calcpc = "config"
    /\ inst' = [inst EXCEPT
                  !.totp_x = BoundCheckGe(@, 5),
                  !.otp_length = BoundCheckLe(BoundCheckGe(@, 1), 9),
                  !.totp_algo = InstantiateAlgo(inst.totp_algo_str)]
    /\ heap' = IF ~inst.allow_reuse THEN (cache_list :> ZeroEntry) ELSE heap
    /\ calcpc' = "ready"
    /\ UNCHANGED <<build, req, params, setrc, calcrc, fault>>
    /\ UNCHANGED <<clock, mutex, cache_tree, pc, frame, ncalls, recorded,
                   nominal, cfault>>
    /\ UNCHANGED b32vars

\* totp_set_params, as totp_xlat_code calls it at line 1365
totp_set_params ==
    /\ calcpc = "ready"
    /\ \E now \in Times, attrs \in RequestAttrs :
          /\ \A n \in VsaNames : attrs[n] # NoVp => n \in inst.vsa
          /\ req' = [now |-> now, attrs |-> attrs]
          /\ params' = ParamsResolved(now, attrs)
    /\ setrc' = 0
    /\ calcpc' = "params"
    /\ UNCHANGED <<build, inst, calcrc, fault>>
    /\ UNCHANGED <<b32vars, cachevars>>

\* totp_calculate, as totp_xlat_code calls it at lines 1456-1459
totp_calculate ==
    /\ calcpc = "params"
    /\ \E d \in DivOutcomesFor(params), key \in CalcKeys :
          LET p == [params EXCEPT !.key = key]
              r == CalcResult(p, d)
          IN  /\ params' = [p EXCEPT !.totp_t = r.totp_t, !.otp = r.otp]
              /\ calcrc' = r.rc
              /\ fault' = r.fault
    /\ calcpc' = "done"
    /\ UNCHANGED <<build, inst, req, setrc>>
    /\ UNCHANGED <<b32vars, cachevars>>

NextCalc == mod_instantiate \/ totp_set_params \/ totp_calculate

SpecCalc == InitCalc /\ [][NextCalc]_vars

\* ---- inputs of the codec ----

\* input texts: every text of 'A' and '=' up to MaxSrcLen bytes, and every
\* text of up to MaxByteLen bytes that is 'A's but for one arbitrary byte
PadTexts == UNION { [1..n -> {65, PadChar}] : n \in 0..MaxSrcLen }

ByteTexts ==
    { [i \in 1..n |-> IF i = p THEN b ELSE 65] :
        n \in 1..MaxByteLen, p \in 1..MaxByteLen, b \in 0..255 }

\* what the build may hold in front of base32_map: the "invalid" mark or not
OobValues == {-1, 0}

\* texts over symbols of mixed bit patterns: '7' (31), 'k' (10), '1' (11)
MixTexts == UNION { [1..n -> {55, 107, 49}] : n \in 0..MaxByteLen }

\* capacity of the largest destination buffer
MaxDstLen == 10

\* the capacities of the destination buffers handed to the decoder
DstLens == {2, MaxDstLen}

InitBase32 ==
    /\ b32pc = "start"
    /\ \/ src \in PadTexts /\ oob = -1 /\ dstlen = MaxDstLen
       \/ src \in ByteTexts /\ oob \in OobValues /\ dstlen \in DstLens
       \/ src \in MixTexts /\ oob = -1 /\ dstlen \in DstLens
    /\ vrc = 0
    /\ dst = << >>
    /\ drc = 0
    /\ CalcIdle
    /\ CacheIdle

Base32Verify ==
    /\ b32pc = "start"
    /\ vrc' = totp_base32_verify(src)
    /\ b32pc' = "verified"
    /\ UNCHANGED <<src, oob, dstlen, dst, drc>>
    /\ UNCHANGED <<calcvars, cachevars>>

\* totp_base32_decode(dst, dstlen, src, srclen)
Base32Decode ==
    /\ b32pc = "verified"
    /\ \E ns \in IF ReadsNegative(src, 0) THEN NegShiftOutcomes ELSE {"wrap"} :
          LET r == totp_base32_decode(dstlen, src, ns)
          IN  /\ drc' = r.rc
              /\ dst' = r.dst
    /\ b32pc' = "decoded"
    /\ UNCHANGED <<src, oob, vrc, dstlen>>
    /\ UNCHANGED <<calcvars, cachevars>>

\* the builds: rad_assert aborts the process, or is compiled out (NDEBUG)
AssertBuilds == {"assert", "ndebug"}

\* lines 661-663: the conditions totp_base32_decode asserts (dst and src
\* are buffers of the caller, never NULL here)
DecodeAsserts(cap) == cap > 0

\* lines 1437-1454 of totp_xlat_code: the text passed totp_base32_verify
\* and is decoded into the key buffer of key_len + 1 bytes, with key_len as
\* the capacity; a failing rad_assert ends the process in an assert build
XlatDecode ==
    /\ b32pc = "verified"
    /\ vrc >= 0
    /\ dstlen' = vrc
    /\ \E a \in AssertBuilds,
          ns \in IF ReadsNegative(src, 0) THEN NegShiftOutcomes ELSE {"wrap"} :
          IF a = "assert" /\ ~DecodeAsserts(vrc)
          THEN /\ b32pc' = "aborted"
               /\ UNCHANGED <<dst, drc>>
          ELSE LET r == totp_base32_decode(vrc, src, ns)
               IN  /\ drc' = r.rc
                   /\ dst' = r.dst
                   /\ b32pc' = "keyed"
    /\ UNCHANGED <<src, oob, vrc>>
    /\ UNCHANGED <<calcvars, cachevars>>

NextBase32 == Base32Verify \/ Base32Decode \/ XlatDecode

SpecBase32 == InitBase32 /\ [][NextBase32]_vars

-----------------------------------------------------------------------------
(* Anti-replay cache: totp_cache_update and what it calls                  *)

\* worker threads of the server (the module is RLM_TYPE_THREAD_SAFE)
NThreads == 2

Threads == 1 .. NThreads

\* calls of totp_cache_update in one run
MaxCalls == 3

\* last Unix time a request reads
MaxClock == 10

\* the smallest time_step the bound check of line 516 leaves configured
MinTimeStep == 5

\* lines 809-821: a zeroed entry holding a copy of the key
totp_cache_entry_alloc(key, key_len, expires) ==
    [ZeroEntry EXCEPT !.key = key, !.keylen = key_len,
                      !.entry_expires = expires]

\* the address talloc returns: the lowest one that holds no object
FreshAddr(h) ==
    CHOOSE a \in 2 .. (Cardinality(DOMAIN h) + 2) :
        /\ a \notin DOMAIN h
        /\ \A b \in 2 .. (a - 1) : b \in DOMAIN h

\* talloc_free / free of an object
Release(h, a) == [b \in (DOMAIN h) \ {a} |-> h[b]]

\* lines 1258-1264, statement by statement
totp_cache_entry_unlink(h, entry) ==
    LET h1 == IF h[entry].prev # NULL
              THEN [h EXCEPT ![h[entry].prev].next = h[entry].next]
              ELSE h
        h2 == [h1 EXCEPT ![entry].prev = NULL]
        h3 == IF h2[entry].next # NULL
              THEN [h2 EXCEPT ![h2[entry].next].prev = h2[entry].prev]
              ELSE h2
    IN  [h3 EXCEPT ![entry].next = NULL]

\* lines 1217-1226: unlink, then free the key and the entry
totp_cache_entry_free(h, ptr) ==
    IF ptr = NULL THEN h ELSE Release(totp_cache_entry_unlink(h, ptr), ptr)

\* rbtree_deletebydata of line 1181: the node holding the data leaves the
\* tree and the tree's free function (line 600) is run on the data
rbtree_deletebydata(h, tree, data) ==
    IF data \in tree
    THEN [heap |-> totp_cache_entry_free(h, data), tree |-> tree \ {data}]
    ELSE [heap |-> h, tree |-> tree]

\* lines 1178-1181: the loop tests the sentinel's own next and expiry
RECURSIVE totp_cache_cleanup(_, _, _)
totp_cache_cleanup(h, tree, t) ==
    IF /\ h[cache_list].next # NULL
       /\ I64(h[cache_list].entry_expires) < I64(t)
    THEN LET d == rbtree_deletebydata(h, tree, h[cache_list].next)
         IN  totp_cache_cleanup(d.heap, d.tree, t)
    ELSE [heap |-> h, tree |-> tree]

\* memcmp of the first n bytes
RECURSIVE MemCmp(_, _, _, _)
MemCmp(a, b, i, n) ==
    IF i > n THEN 0
    ELSE IF a[i] # b[i] THEN (IF a[i] < b[i] THEN -1 ELSE 1)
    ELSE MemCmp(a, b, i + 1, n)

\* lines 1199-1207 on two entries
EntryCmp(entry_a, entry_b) ==
    LET keylen == IF entry_a.keylen < entry_b.keylen
                  THEN entry_a.keylen ELSE entry_b.keylen
        rc == MemCmp(entry_a.key, entry_b.key, 1, keylen)
    IN  IF rc # 0 THEN rc
        ELSE IF entry_a.keylen = entry_b.keylen THEN 0
        ELSE IF entry_a.keylen < entry_b.keylen THEN -1 ELSE 1

\* what rbtree_finddata returns when the comparison is EntryCmp on the data
ByteWiseFind(h, tree, entry) ==
    IF \E r \in tree : EntryCmp(h[entry], h[r]) = 0
    THEN CHOOSE r \in tree : EntryCmp(h[entry], h[r]) = 0
    ELSE NULL

\* lines 1197-1198: the rbtree hands totp_cache_entry_cmp the data pointers
\* themselves, and the function reads them as pointers to pointers: entry_a
\* and entry_b are the key buffers read as entries.  The behaviour is
\* undefined: a comparison returns any sign, or the process dies.  A lookup
\* in a tree that holds nodes therefore returns any node or none; a lookup
\* in an empty tree compares nothing.
totp_cache_entry_cmp(tree) ==
    IF tree = {} THEN {"none"} ELSE {"any", "SIGSEGV"}

\* the results of rbtree_finddata (line 1311)
rbtree_finddata(h, tree, entry) ==
    IF "any" \in totp_cache_entry_cmp(tree) THEN tree \cup {NULL} ELSE {NULL}

\* the results of rbtree_insert (line 1318): FALSE when the node cannot be
\* allocated or a comparison reports the data as already present
rbtree_insert(tree) == BOOLEAN

\* lines 1322-1327
CacheListAdd(h, entry) ==
    LET tail == h[cache_list].prev
        h1 == IF tail # NULL
              THEN [h EXCEPT ![tail].next = entry, ![entry].prev = tail]
              ELSE h
    IN  [h1 EXCEPT ![entry].next = cache_list, ![cache_list].prev = entry]

\* a cutoff computed without the decrement of line 1289
UpdateExpires_NoDecrement(p) ==
    LET e1 == U64(p.totp_cur_unix - p.totp_t0 + p.totp_time_offset)
        e2 == e1 \div p.totp_x
    IN  U64(e2 * p.totp_x)

\* lines 1287-1290
UpdateExpires(p) ==
    LET e1 == U64(p.totp_cur_unix - p.totp_t0 + p.totp_time_offset)
        e2 == e1 \div p.totp_x
        e3 == U64(e2 - 1)
    IN  U64(e3 * p.totp_x)

\* the time step of a call: T of totp_calculate (line 848) for its params
StepOf(p) ==
    U64(p.totp_cur_unix - p.totp_t0 + p.totp_time_offset) \div p.totp_x

\* lines 1033-1037 for an instance with unix_time 0 and time_offset 0 (the
\* defaults of lines 359-361) and the smallest time_step
CacheParams(cur) ==
    [totp_t0 |-> 0, totp_x |-> MinTimeStep, totp_cur_unix |-> cur,
     totp_time_offset |-> 0]

\* the identity keys of the requests: "a", "b"
CacheKeys == { <<97>>, <<98>> }

\* lines 1244-1250: the cache-key attribute of the request, or none
RequestKeys == {NoVp} \cup {Attr("string", 0, k) : k \in CacheKeys}

\* the clock at start, and what a later read of it returns
InitClocks == {0, 3}

ClockReads(c) == {d \in {c, c + MinTimeStep} : d <= MaxClock}

FrameIdle ==
    [vp |-> NoVp, params |-> CacheParams(0), expires |-> 0, entry |-> NULL,
     ret |-> 0, replay |-> FALSE]

\* the state after mod_instantiate with allow_reuse = no (lines 599-609):
\* an empty tree and a zeroed sentinel, the mutex initialised (line 513)
InitCache ==
    /\ clock \in InitClocks
    /\ mutex = NULL
    /\ heap = (cache_list :> ZeroEntry)
    /\ cache_tree = {}
    /\ pc = [t \in Threads |-> "idle"]
    /\ frame = [t \in Threads |-> FrameIdle]
    /\ ncalls = 0
    /\ recorded = {}
    /\ nominal = TRUE
    /\ cfault = "none"
    /\ Base32Idle
    /\ CalcIdle

\* pthread_mutex_lock (line 1292): blocks while another thread holds it
pthread_mutex_lock(t) ==
    /\ mutex = NULL
    /\ mutex' = t

\* a return that leaves the mutex locked
pthread_mutex_unlock_Skipped(t) ==
    mutex' = mutex

\* pthread_mutex_unlock (lines 1298, 1305, 1329)
pthread_mutex_unlock(t) ==
    mutex' = NULL

\* return(rc) of totp_cache_update
CacheReturn(t, rc) ==
    /\ pc' = [pc EXCEPT ![t] = "done"]
    /\ frame' = [frame EXCEPT ![t].ret = rc, ![t].entry = NULL]

\* a worker thread enters totp_cache_update for a request: the params hold
\* the time just read (line 1035); lines 1287-1290 compute the cutoff
CacheUpdateCall(t) ==
    /\ cfault = "none"
    /\ pc[t] \in {"idle", "done"}
    /\ ncalls < MaxCalls
    /\ \E c \in ClockReads(clock), vp \in RequestKeys :
          /\ clock' = c
          /\ frame' = [frame EXCEPT ![t] =
                         [FrameIdle EXCEPT
                            !.vp = vp,
                            !.params = CacheParams(c),
                            !.expires = UpdateExpires(CacheParams(c))]]
    /\ ncalls' = ncalls + 1
    /\ pc' = [pc EXCEPT ![t] = "lock"]
    /\ UNCHANGED <<mutex, heap, cache_tree, recorded, nominal, cfault>>
    /\ UNCHANGED <<b32vars, calcvars>>

\* line 1292; replay notes whether this key and step were recorded before
MutexLock(t) ==
    /\ cfault = "none"
    /\ pc[t] = "lock"
    /\ pthread_mutex_lock(t)
    /\ frame' = [frame EXCEPT ![t].replay =
                    <<frame[t].vp.text, StepOf(frame[t].params)>> \in recorded]
    /\ pc' = [pc EXCEPT ![t] = "cleanup"]
    /\ UNCHANGED <<clock, heap, cache_tree, ncalls, recorded, nominal, cfault>>
    /\ UNCHANGED <<b32vars, calcvars>>

\* line 1294
CacheCleanup(t) ==
    /\ cfault = "none"
    /\ pc[t] = "cleanup"
    /\ LET c == totp_cache_cleanup(heap, cache_tree, frame[t].expires)
       IN  /\ heap' = c.heap
           /\ cache_tree' = c.tree
    /\ pc' = [pc EXCEPT ![t] = "key"]
    /\ UNCHANGED <<clock, mutex, frame, ncalls, recorded, nominal, cfault>>
    /\ UNCHANGED <<b32vars, calcvars>>

\* lines 1296-1300
CacheEntryKey(t) ==
    /\ cfault = "none"
    /\ pc[t] = "key"
    /\ IF frame[t].vp = NoVp
       THEN /\ pthread_mutex_unlock(t)
            /\ CacheReturn(t, -1)
       ELSE /\ pc' = [pc EXCEPT ![t] = "alloc"]
            /\ UNCHANGED <<mutex, frame>>
    /\ UNCHANGED <<clock, heap, cache_tree, ncalls, recorded, nominal, cfault>>
    /\ UNCHANGED <<b32vars, calcvars>>

\* lines 1302-1308: talloc returns memory or NULL
CacheEntryAlloc(t) ==
    /\ cfault = "none"
    /\ pc[t] = "alloc"
    /\ \E allocated \in BOOLEAN :
          IF ~allocated
          THEN /\ pthread_mutex_unlock(t)
               /\ CacheReturn(t, -1)
               /\ UNCHANGED heap
          ELSE LET a == FreshAddr(heap)
                   e == totp_cache_entry_alloc(frame[t].vp.text,
                                               Len(frame[t].vp.text), 0)
               IN  /\ heap' = (a :> [e EXCEPT !.entry_expires =
                                       U64(frame[t].expires
                                           + frame[t].params.totp_x - 1)])
                                @@ heap
                   /\ frame' = [frame EXCEPT ![t].entry = a]
                   /\ pc' = [pc EXCEPT ![t] = "find"]
                   /\ UNCHANGED mutex
    /\ UNCHANGED <<clock, cache_tree, ncalls, recorded, nominal, cfault>>
    /\ UNCHANGED <<b32vars, calcvars>>

\* lines 1311-1319: the comparison dies, or the lookup returns a result and
\* the entry found is refreshed, or the new entry is handed to rbtree_insert
\* and what rbtree_insert returns is dropped
CacheFindOrInsert(t) ==
    /\ cfault = "none"
    /\ pc[t] = "find"
    /\ LET entry == frame[t].entry
           wanted == ByteWiseFind(heap, cache_tree, entry)
       IN  \/ /\ "SIGSEGV" \in totp_cache_entry_cmp(cache_tree)
              /\ cfault' = "SIGSEGV"
              /\ UNCHANGED <<heap, cache_tree, frame, pc, nominal>>
           \/ \E result \in rbtree_finddata(heap, cache_tree, entry) :
                 /\ cfault' = cfault
                 /\ pc' = [pc EXCEPT ![t] = "link"]
                 /\ IF result # NULL
                    THEN /\ heap' = Release(
                                 [totp_cache_entry_unlink(heap, result)
                                    EXCEPT ![result].entry_expires =
                                              heap[entry].entry_expires],
                                 entry)
                         /\ frame' = [frame EXCEPT ![t].entry = result]
                         /\ nominal' = (nominal /\ result = wanted)
                         /\ UNCHANGED cache_tree
                    ELSE \E inserted \in rbtree_insert(cache_tree) :
                            /\ cache_tree' = IF inserted
                                             THEN cache_tree \cup {entry}
                                             ELSE cache_tree
                            /\ nominal' = (nominal /\ wanted = NULL
                                                   /\ inserted)
                            /\ UNCHANGED <<heap, frame>>
    /\ UNCHANGED <<clock, mutex, ncalls, recorded>>
    /\ UNCHANGED <<b32vars, calcvars>>

\* lines 1321-1327
CacheLink(t) ==
    /\ cfault = "none"
    /\ pc[t] = "link"
    /\ heap' = CacheListAdd(heap, frame[t].entry)
    /\ pc' = [pc EXCEPT ![t] = "unlock"]
    /\ UNCHANGED <<clock, mutex, cache_tree, frame, ncalls, recorded,
                   nominal, cfault>>
    /\ UNCHANGED <<b32vars, calcvars>>

\* lines 1329-1331
MutexUnlock(t) ==
    /\ cfault = "none"
    /\ pc[t] = "unlock"
    /\ pthread_mutex_unlock(t)
    /\ CacheReturn(t, 0)
    /\ recorded' = recorded \cup
                     {<<frame[t].vp.text, StepOf(frame[t].params)>>}
    /\ UNCHANGED <<clock, heap, cache_tree, ncalls, nominal, cfault>>
    /\ UNCHANGED <<b32vars, calcvars>>

\* the steps of a thread between its call and its return
CacheStep(t) ==
    \/ CacheCleanup(t)
    \/ CacheEntryKey(t)
    \/ CacheEntryAlloc(t)
    \/ CacheFindOrInsert(t)
    \/ CacheLink(t)
    \/ MutexUnlock(t)

Next ==
    \E t \in Threads :
        \/ CacheUpdateCall(t)
        \/ MutexLock(t)
        \/ CacheCleanup(t)
        \/ CacheEntryKey(t)
        \/ CacheEntryAlloc(t)
        \/ CacheFindOrInsert(t)
        \/ CacheLink(t)
        \/ MutexUnlock(t)

Spec == InitCache /\ [][Next]_vars

\* a running thread is scheduled again and again; a thread blocked in
\* pthread_mutex_lock gets the mutex if it is free again and again
FairSpec ==
    /\ Spec
    /\ \A t \in Threads : WF_vars(CacheStep(t))
    /\ \A t \in Threads : SF_vars(MutexLock(t))

\* ---- calls that carry per-request overrides ----

\* time_step and unix_time as a request may override them (lines 1042-1043)
OverrideSteps == {MinTimeStep, 2 * MinTimeStep}

OverrideEpochs == {0, 5}

\* the params of a call whose request overrides time_step and unix_time
OverrideParams(cur) ==
    { [CacheParams(cur) EXCEPT !.totp_t0 = t0, !.totp_x = x] :
        t0 \in OverrideEpochs, x \in OverrideSteps }

\* totp_cache_update entered with params totp_set_params resolved from the
\* overrides of the request
CacheUpdateCallOverride(t) ==
    /\ cfault = "none"
    /\ pc[t] \in {"idle", "done"}
    /\ ncalls < MaxCalls
    /\ \E c \in ClockReads(clock), vp \in RequestKeys :
       \E p \in OverrideParams(c) :
          /\ clock' = c
          /\ frame' = [frame EXCEPT ![t] =
                         [FrameIdle EXCEPT
                            !.vp = vp,
                            !.params = p,
                            !.expires = UpdateExpires(p)]]
    /\ ncalls' = ncalls + 1
    /\ pc' = [pc EXCEPT ![t] = "lock"]
    /\ UNCHANGED <<mutex, heap, cache_tree, recorded, nominal, cfault>>
    /\ UNCHANGED <<b32vars, calcvars>>

\* one worker thread: its calls follow one another, so the times they read
\* never decrease from one call to the next
SerialThreads == {1}

NextOverride ==
    \E t \in SerialThreads :
        \/ CacheUpdateCallOverride(t)
        \/ MutexLock(t)
        \/ CacheCleanup(t)
        \/ CacheEntryKey(t)
        \/ CacheEntryAlloc(t)
        \/ CacheFindOrInsert(t)
        \/ CacheLink(t)
        \/ MutexUnlock(t)

SpecOverride == InitCache /\ [][NextOverride]_vars

-----------------------------------------------------------------------------
(* Properties of the cache                                                 *)

\* the threads between lock and unlock
InCritical == {"cleanup", "key", "alloc", "find", "link", "unlock"}

\* the entries reached from the sentinel along prev (newest to oldest)
RECURSIVE PrevChain(_, _, _)
PrevChain(h, e, seen) ==
    IF e = NULL \/ e \in seen \/ e \notin DOMAIN h THEN seen
    ELSE PrevChain(h, h[e].prev, seen \cup {e})

ListEntries == PrevChain(heap, heap[cache_list].prev, {})

\* no call of totp_cache_update is in progress
Quiescent == \A t \in Threads : pc[t] \in {"idle", "done"}

\* C1: for a fixed identity key and time step, the first call succeeds and
\* an immediately following call with the same key and the same step is
\* rejected: a call that finds its key and step already recorded does not
\* return success.
C1_RepeatInStepRejected ==
    \A t \in Threads :
        (pc[t] = "done" /\ frame[t].replay /\ nominal) => frame[t].ret # 0

\* C2: the sweep at the start of a call removes every entry whose expiry is
\* less than the call's cutoff: right after the sweep neither the tree nor
\* the list holds an entry that expired before the cutoff.
C2_SweepRemovesExpired ==
    \A t \in Threads :
        (pc[t] = "key" /\ nominal) =>
            \A e \in cache_tree \cup ListEntries :
                I64(heap[e].entry_expires) >= I64(frame[t].expires)

\* C3: between calls, the entries in the tree are exactly the entries
\* reached in the list anchored at the cache_list sentinel.
C3_TreeEqualsList ==
    (Quiescent /\ nominal) => cache_tree = ListEntries

\* C4: once all calls have returned, the tree holds exactly one entry for
\* each identity key that was recorded.
C4_OneEntryPerRecordedKey ==
    Quiescent =>
        \A k \in {r[1] : r \in recorded} :
            Cardinality({e \in cache_tree : heap[e].key = k}) = 1

\* C5: at most one thread at a time is between lock and unlock; a thread
\* holds the mutex at every position from the sweep to the insert/update
\* and at no position outside them, so the mutex is released on every
\* return path; a thread waiting for the mutex gets past the lock, and a
\* held mutex is released (unless the process died).
C5_MutexGuardsUpdate ==
    /\ [](\A t \in Threads : (pc[t] \in InCritical) <=> (mutex = t))
    /\ [](Cardinality({t \in Threads : pc[t] \in InCritical}) <= 1)
    /\ \A t \in Threads :
          (pc[t] = "lock") ~> (pc[t] # "lock" \/ cfault # "none")
    /\ (mutex # NULL) ~> (mutex = NULL \/ cfault # "none")

\* one thread waits for the mutex while the other, having called for a key
\* that an earlier call recorded, is about to link its entry
C5_Witness ==
    \E t, u \in Threads :
        /\ pc[t] = "lock"
        /\ pc[u] = "link"
        /\ mutex = u
        /\ recorded # {}

-----------------------------------------------------------------------------
(* Properties of the calculator                                            *)

\* totp_calculate returned a code (not -1, and it did return)
CodeProduced == calcpc = "done" /\ fault = "none" /\ calcrc >= 0

\* the algorithm name the request asks for: the override attribute when
\* totp_set_params reads one, else the configured name
RequestedAlgoName ==
    IF inst.allow_override /\ RequestVp(req.attrs, "algorithm").type = "string"
    THEN RequestVp(req.attrs, "algorithm").text
    ELSE inst.totp_algo_str

\* C6: whenever the adjusted time now + offset is earlier than T0, Calculate
\* fails with an error; it never returns a code derived from a negative or
\* wrapped-around interval.
C6_EarlierThanEpochFails ==
    (calcpc = "done"
       /\ params.totp_cur_unix + params.totp_time_offset < params.totp_t0)
    => (calcrc = -1 /\ fault = "none")

\* C7: Calculate called with time step X == 0 returns a domain error instead
\* of dividing by zero.
C7_ZeroStepIsDomainError ==
    (calcpc = "done" /\ params.totp_x = 0) => (calcrc = -1 /\ fault = "none")

\* C8: whenever the requested hash algorithm (configured name or per-request
\* override) is not in the algorithm table, the calculation fails and no code
\* is produced; a code is never computed with another hash.
C8_UnknownHashFails ==
    (calcpc = "done" /\ totp_algorithm_id(RequestedAlgoName) = -1)
    => ~CodeProduced

\* totp_set_params read a string algorithm attribute of the request
AlgoOverrideRead ==
    inst.allow_override /\ RequestVp(req.attrs, "algorithm").type = "string"

\* C8 as amended: an override naming an algorithm that is not in the table
\* makes the calculation fail, no code is produced; a configured name that
\* is not in the table is replaced by SHA1 when the module is instantiated,
\* and without an override the code is computed with HMAC-SHA1.
C8_UnknownOverrideFails_UnknownConfigIsSha1 ==
    calcpc = "done" =>
      /\ (AlgoOverrideRead /\ totp_algorithm_id(RequestedAlgoName) = -1)
            => ~CodeProduced
      /\ (~AlgoOverrideRead /\ totp_algorithm_id(inst.totp_algo_str) = -1)
            => params.totp_algo = RLM_TOTP_HMAC_SHA1

\* a request overrode the algorithm with a name that is not in the table,
\* the guard of the calculation passed and the calculation failed
C8_Witness ==
    /\ calcpc = "done"
    /\ AlgoOverrideRead
    /\ totp_algorithm_id(RequestedAlgoName) = -1
    /\ ~CalcGuardFails(params)
    /\ calcrc = -1

-----------------------------------------------------------------------------
(* Properties of the codec                                                 *)

\* the characters the validator is specified to take: A-Z a-z 2-7 0 1 8 =
ValidBytes ==
    (65..90) \cup (97..122) \cup (50..55) \cup {48, 49, 56} \cup {PadChar}

OverValidAlphabet(s) == \A i \in 1..Len(s) : s[i] \in ValidBytes

HasPad(s) == \E i \in 1..Len(s) : s[i] = PadChar

\* position (from 0) of the first '=', the length of s when it has none
FirstPad(s) ==
    IF HasPad(s)
    THEN (CHOOSE i \in 1..Len(s) :
             s[i] = PadChar /\ \A j \in 1..(i - 1) : s[j] # PadChar) - 1
    ELSE Len(s)

\* (a) a '=' is followed by a character that is not '='
PadRuleA(s) == \E i, j \in 1..Len(s) : i < j /\ s[i] = PadChar /\ s[j] # PadChar

\* (b) the first '=' is at p with p % 8 < 2, or the input does not end at
\* the first multiple of 8 after p
PadRuleB(s) ==
    HasPad(s) /\ (FirstPad(s) % 8 < 2 \/ Len(s) # 8 * ((FirstPad(s) \div 8) + 1))

\* (c) the length of the unpadded prefix is 1, 3 or 6 modulo 8
PadRuleC(s) == FirstPad(s) % 8 \in {1, 3, 6}

\* C9: Verify returns the Base32 error code for every input that contains at
\* least one byte outside A-Z, a-z, 2-7, 0, 1, 8 and '='.
C9_ForeignByteRejected ==
    (b32pc = "verified" /\ ~OverValidAlphabet(src))
    => vrc = RLM_TOTP_CODE_EBASE32

\* C10: over the valid alphabet, Verify rejects exactly the texts that break
\* rule (a), (b) or (c), and accepts all the others.
C10_PaddingAndLengthRules ==
    (b32pc = "verified" /\ OverValidAlphabet(src))
    => ((vrc = RLM_TOTP_CODE_EBASE32)
          <=> (PadRuleA(src) \/ PadRuleB(src) \/ PadRuleC(src)))

\* a padded text of two blocks was verified and accepted
C10_Witness ==
    /\ b32pc = "verified"
    /\ OverValidAlphabet(src)
    /\ Len(src) = 16
    /\ FirstPad(src) = 10
    /\ vrc = 6

\* C11: for every text Verify accepts and a destination of sufficient
\* capacity, Decode returns what Verify returns and writes exactly the
\* indices below the returned length.
C11_DecodeLengthIsVerify ==
    (b32pc = "decoded" /\ vrc >= 0 /\ vrc <= dstlen)
    => (drc = vrc /\ DOMAIN dst = 0 .. (drc - 1))

\* a padded text of ten data characters was decoded into six bytes
C11_Witness ==
    /\ b32pc = "decoded"
    /\ HasPad(src)
    /\ FirstPad(src) = 10
    /\ vrc = 6
    /\ drc = 6

\* the canonical form: letters in upper case, '0' as 'O', '1' as 'L', '8'
\* as 'B'
Canonical(c) ==
    IF c >= 97 /\ c <= 122 THEN c - 32
    ELSE IF c = 48 THEN 79
    ELSE IF c = 49 THEN 76
    ELSE IF c = 56 THEN 66
    ELSE c

\* the RFC 4648 Base32 alphabet: 'A'..'Z' are 0..25, '2'..'7' are 26..31
InRfcAlphabet(c) == (c >= 65 /\ c <= 90) \/ (c >= 50 /\ c <= 55)

RfcValue(c) == IF c >= 65 THEN c - 65 ELSE c - 50 + 26

\* bit j (from 0, most significant first) of the symbols of s
RfcBit(s, j) ==
    (RfcValue(Canonical(s[(j \div 5) + 1])) \div (2 ^ (4 - (j % 5)))) % 2

\* the RFC 4648 decoding of the data characters of s: byte i is the bits
\* 8i .. 8i+7 of the symbol stream
RfcDecode(s) ==
    [i \in 0 .. (((FirstPad(s) * 5) \div 8) - 1) |->
        RfcBit(s, 8 * i) * 128 + RfcBit(s, 8 * i + 1) * 64
        + RfcBit(s, 8 * i + 2) * 32 + RfcBit(s, 8 * i + 3) * 16
        + RfcBit(s, 8 * i + 4) * 8 + RfcBit(s, 8 * i + 5) * 4
        + RfcBit(s, 8 * i + 6) * 2 + RfcBit(s, 8 * i + 7)]

\* the data characters of s are in the RFC alphabet once made canonical
CanonicalInRfc(s) ==
    \A i \in 1 .. FirstPad(s) : InRfcAlphabet(Canonical(s[i]))

SameBytes(f, g) ==
    DOMAIN f = DOMAIN g /\ \A i \in DOMAIN f : f[i] = g[i]

\* C12: for every text Verify accepts, the bytes Decode produces are the
\* RFC 4648 decoding of the canonical form of the text.
C12_DecodeIsRfc4648 ==
    (b32pc = "decoded" /\ vrc >= 0 /\ drc >= 0)
    => (CanonicalInRfc(src) /\ SameBytes(dst, RfcDecode(src)))

\* the same for the texts over A-Z, a-z, 2-7, 0, 1, 8 and '='
DecodeIsRfc4648OnAlphabet ==
    (b32pc = "decoded" /\ vrc >= 0 /\ drc >= 0 /\ OverValidAlphabet(src))
    => (CanonicalInRfc(src) /\ SameBytes(dst, RfcDecode(src)))

\* the adjusted time of a request made at time u, as a number
AdjustedTime(u) == u + I64(params.totp_time_offset)

\* the window of the adjusted time of u: n with
\* T0 + n*X <= adjusted time < T0 + (n+1)*X
WindowOf(u) == (AdjustedTime(u) - params.totp_t0) \div params.totp_x

\* what totp_calculate returns for the same params at time u
CalcAt(u) == CalcResult([params EXCEPT !.totp_cur_unix = u], "zero")

\* C13: for fixed key, hash, T0, X, offset and digits, a calculation returns
\* the index n of the window its adjusted time lies in; any calculation in
\* the same window returns the same index and the same code, and one in the
\* next window returns n + 1.
C13_SameWindowSameCode ==
    (/\ calcpc = "done"
     /\ fault = "none"
     /\ params.totp_x > 0
     /\ AdjustedTime(params.totp_cur_unix) >= params.totp_t0)
    => /\ params.totp_t = WindowOf(params.totp_cur_unix)
       /\ \A u \in Times :
             /\ (AdjustedTime(u) >= params.totp_t0
                 /\ WindowOf(u) = WindowOf(params.totp_cur_unix))
                => LET r == CalcAt(u)
                   IN  /\ r.totp_t = params.totp_t
                       /\ r.rc = calcrc
                       /\ r.otp = params.otp
             /\ (WindowOf(u) = WindowOf(params.totp_cur_unix) + 1)
                => CalcAt(u).totp_t = params.totp_t + 1

\* a code was computed in the middle of the third window of T0 = 10, X = 5
C13_Witness ==
    /\ calcpc = "done"
    /\ calcrc >= 0
    /\ params.totp_t0 = 10
    /\ params.totp_x = 5
    /\ params.totp_time_offset = 0
    /\ params.totp_cur_unix = 22
    /\ params.totp_t = 2

-----------------------------------------------------------------------------
(* Allocation failure in totp_cache_update                                 *)

\* C14: when an allocation fails in a call, for the entry or for the tree
\* node, the call leaves the entry in neither index: between calls no entry
\* is reached in the list that the tree does not hold.
C14_AllocFailureLeavesNoEntry ==
    Quiescent => ListEntries \subseteq cache_tree


-----------------------------------------------------------------------------
(* The expansion totp_xlat_code and the cache                              *)

\* C15: with allow_reuse false, every call of the expansion that returns a
\* code has consulted and recorded the replay cache: when a code has been
\* produced, the cache created by mod_instantiate holds an entry, in the
\* tree and in the list.
C15_CodeImpliesCacheRecorded ==
    (CodeProduced /\ ~inst.allow_reuse)
    => (cache_tree # {} /\ heap[cache_list].prev # NULL)


-----------------------------------------------------------------------------
(* Digits and override conversions                                         *)

\* C16: totp_calculate rejects a digit count outside 1..9: a call whose
\* params hold such an otp_length returns -1 (and does return).
C16_DigitsOutOfRangeRejected ==
    (calcpc = "done" /\ params.otp_length \notin 1..9)
    => (fault = "none" /\ calcrc = -1)


\* the request holds an override attribute that totp_set_params reads and
\* that totp_set_params_integer / totp_set_params_signed cannot convert
OverrideUnconvertible ==
    /\ inst.allow_override
    /\ \/ \E n \in {"unix_time", "time_step", "otp_length"} :
             totp_set_params_integer(RequestVp(req.attrs, n), 0).rc # 0
       \/ totp_set_params_signed(RequestVp(req.attrs, "time_offset"), 0).rc # 0

\* C17: with allow_override true, an override attribute that is present but
\* cannot be converted makes the parameter resolution report an error and
\* no code is issued: totp_set_params does not return 0, the configured
\* default does not take the place of the override, and no code follows.
C17_BadOverrideIsError ==
    (calcpc \in {"params", "done"} /\ OverrideUnconvertible)
    => (setrc # 0 /\ ~CodeProduced)


-----------------------------------------------------------------------------
(* Expiry values and the order of the list                                 *)

\* the calls for which T >= 0 and X > 0: the time of the request, shifted by
\* the offset, is not before the epoch
StepDefined(p) ==
    p.totp_x > 0 /\ p.totp_cur_unix + p.totp_time_offset >= p.totp_t0

\* T, the time-step index, as an integer
StepIndex(p) ==
    (p.totp_cur_unix + p.totp_time_offset - p.totp_t0) \div p.totp_x

\* C18: for every T >= 0 and X > 0 the expiry stored in the entry of the
\* call, read as the time_t it is, equals (T - 1) * X + X - 1; the wrap of
\* the unsigned computation at T = 0 does not change it.
C18_ExpiryIsEndOfPreviousStep ==
    \A t \in Threads :
        (pc[t] \in {"find", "link", "unlock"} /\ StepDefined(frame[t].params))
        => LET p == frame[t].params
           IN  I64(heap[frame[t].entry].entry_expires)
                 = (StepIndex(p) - 1) * p.totp_x + p.totp_x - 1

\* a call at T = 0 has stored its expiry, -1
C18_Witness ==
    \E t \in Threads :
        /\ pc[t] = "find"
        /\ StepDefined(frame[t].params)
        /\ StepIndex(frame[t].params) = 0
        /\ frame[t].params.totp_x = 2 * MinTimeStep
        /\ I64(heap[frame[t].entry].entry_expires) = -1


\* the step of CacheFindOrInsert by thread t for a key the tree holds, and
\* the step of CacheLink that follows it
SupersedeStep(t) ==
    /\ pc[t] = "find" /\ pc'[t] = "link"
    /\ ByteWiseFind(heap, cache_tree, frame[t].entry) # NULL

LinkStep(t) == pc[t] = "link" /\ pc'[t] = "unlock"

\* what the claim says of the two steps
SupersedeRefreshes(t) ==
    LET old == ByteWiseFind(heap, cache_tree, frame[t].entry)
    IN  /\ cache_tree' = cache_tree
        /\ DOMAIN heap' = (DOMAIN heap) \ {frame[t].entry}
        /\ frame'[t].entry = old
        /\ heap'[old].entry_expires = heap[frame[t].entry].entry_expires

LinkMakesNewest(t) ==
    /\ heap'[cache_list].prev = frame[t].entry
    /\ heap'[frame[t].entry].next = cache_list
    /\ cache_tree' = cache_tree

\* C19: when the call is for a key that already has an entry, no entry is
\* added: the tree is left as it is, the entry allocated for the call is
\* freed, the existing entry gets the new expiry and is then linked right
\* before the sentinel.
C19_SupersedeKeepsOneEntry ==
    [][\A t \in Threads :
          /\ SupersedeStep(t) => SupersedeRefreshes(t)
          /\ LinkStep(t) => LinkMakesNewest(t)]_vars

\* the same with the lookups that return the byte-wise match
SupersedeOnByteWiseLookup ==
    [][\A t \in Threads :
          /\ (SupersedeStep(t) /\ nominal') => SupersedeRefreshes(t)
          /\ LinkStep(t) => LinkMakesNewest(t)]_vars


\* C20: the calls of one thread read times that never decrease; then, in
\* every state, reading the list from its oldest entry to its newest the
\* expiry values (time_t) never decrease, also when the calls carry
\* different time_step or unix_time overrides.  Stated for the runs in
\* which every lookup returned the byte-wise match and every insertion
\* succeeded.
C20_ListExpiryNonDecreasing ==
    nominal =>
        \A e \in ListEntries :
            (heap[e].prev # NULL /\ heap[e].prev \in DOMAIN heap)
            => I64(heap[heap[e].prev].entry_expires)
                 <= I64(heap[e].entry_expires)


-----------------------------------------------------------------------------
(* Dynamic truncation and the text of the code                             *)

\* the digest totp_calculate truncated in the call that has just returned
DigestOfCall ==
    totp_hmac(I64(params.totp_algo), CounterBytes(params.totp_t), params.key)

\* offset = last digest byte & 0x0F, counted from 0
TruncOffset(h) == h.digest[h.digest_len] % 16

\* the four digest bytes from the offset on, the top bit of the first one
\* cleared, read as a big-endian integer
RECURSIVE BigEndian(_, _)
BigEndian(bytes, n) ==
    IF n = 0 THEN 0 ELSE BigEndian(bytes, n - 1) * 256 + bytes[n]

TruncBytes(h) ==
    LET o == TruncOffset(h)
    IN  [i \in 1..4 |->
            IF i = 1 /\ h.digest[o + 1] >= 128
            THEN h.digest[o + 1] - 128
            ELSE h.digest[o + i]]

RECURSIVE Pow10(_)
Pow10(n) == IF n = 0 THEN 1 ELSE 10 * Pow10(n - 1)

\* the number a text of decimal digits stands for
RECURSIVE DecimalValue(_, _)
DecimalValue(text, n) ==
    IF n = 0 THEN 0 ELSE DecimalValue(text, n - 1) * 10 + (text[n] - 48)

\* C21: for a digest of a supported hash and digits in 1..9, the code that
\* totp_calculate returns is bin_code mod 10^digits, bin_code being the
\* 31-bit big-endian integer of the 4 digest bytes at offset = (last digest
\* byte & 0x0F) with the top bit of the first byte cleared, and the text is
\* that value in exactly `digits` decimal characters, zero-filled on the
\* left.
C21_TruncationAndText ==
    (calcpc = "done" /\ fault = "none" /\ DigestOfCall.digest_len > 0
     /\ ~CalcGuardFails(params)
     /\ params.otp_length \in 1..9)
    => LET bin_code == BigEndian(TruncBytes(DigestOfCall), 4)
           code == bin_code % Pow10(params.otp_length)
       IN  /\ calcrc = code
           /\ Len(params.otp) = params.otp_length
           /\ \A i \in 1..Len(params.otp) : IsDigit(params.otp[i])
           /\ DecimalValue(params.otp, Len(params.otp)) = code

\* a call with 9 digits whose first truncated byte has its top bit set and
\* whose code needs a zero on the left
C21_Witness ==
    /\ CodeProduced
    /\ params.otp_length = 9
    /\ DigestOfCall.digest_len > 0
    /\ DigestOfCall.digest[TruncOffset(DigestOfCall) + 1] >= 128
    /\ Len(params.otp) = 9
    /\ params.otp[1] = 48


-----------------------------------------------------------------------------
(* Shape of the expiry list                                                *)

\* the entries of the cache: what the heap holds beside the sentinel
CacheEntries == (DOMAIN heap) \ {cache_list}

\* C22: between calls the expiry list is a well-formed doubly-linked list:
\* for every entry e, e.next.prev = e, and e.prev.next = e whenever e.prev
\* is not NULL, and every entry is reached from the sentinel along prev.
\* Stated for the runs in which every lookup returned the byte-wise match
\* and every insertion succeeded.
C22_ListWellFormed ==
    (Quiescent /\ nominal) =>
        \A e \in CacheEntries :
            /\ heap[e].next # NULL
            /\ heap[heap[e].next].prev = e
            /\ heap[e].prev # NULL => heap[heap[e].prev].next = e
            /\ e \in ListEntries


-----------------------------------------------------------------------------
(* Table subscripts of the validator                                       *)

\* the subscripts with which the scan of lines 757-773 reads base32_map:
\* one for each byte up to the byte that ends the scan
RECURSIVE VerifyReads(_, _)
VerifyReads(s, pos) ==
    IF pos >= Len(s) THEN {}
    ELSE {VerifyIndex(s[pos + 1])} \cup
         (IF MapRead(VerifyIndex(s[pos + 1])) = -1 THEN {}
          ELSE IF s[pos + 1] # PadChar THEN VerifyReads(s, pos + 1)
          ELSE {})

\* C23: for every byte value 0..255 at every position, the subscript with
\* which totp_base32_verify reads the 256-entry base32_map lies in 0..255.
C23_VerifyIndexInTable ==
    b32pc # "start" => \A i \in VerifyReads(src, 0) : i >= 0 /\ i <= 255


-----------------------------------------------------------------------------
(* The decoder as totp_xlat_code calls it                                  *)

\* C24: for every secret text that totp_xlat_code hands to the decoder
\* after totp_base32_verify accepted it (the empty text included), what
\* totp_base32_decode asserts holds at the call: the destination capacity
\* is greater than 0 (destination and source are never NULL).
C24_DecodePreconditionsHold ==
    b32pc \in {"keyed", "aborted"} => DecodeAsserts(dstlen)

====
